---- MODULE Spec2Model ----
(***************************************************************************)
(* Model of the Slack answer handler of onyx:                              *)
(*   backend/onyx/onyxbot/slack/handlers/handle_regular_answer.py          *)
(* handle_regular_answer, its retrying fetch (_get_slack_answer under      *)
(* @retry and @rate_limits) and the module-level rate limiter srl.         *)
(*                                                                         *)
(* The class SlackRateLimiter (onyx.onyxbot.slack.utils) is not part of    *)
(* the sources at hand; its operations are modelled from section 4.1 of    *)
(* the specification.  Everything else is translated from the handler.     *)
(*                                                                         *)
(* Two specifications share the definitions:                               *)
(*   Spec      one invocation of handle_regular_answer, from its first     *)
(*             line to its return or to the exception that leaves it;      *)
(*   SpecGate  several invocations that call their rate-limited fetch      *)
(*             concurrently (SpecGateFair adds the scheduler's fairness).  *)
(***************************************************************************)
EXTENDS Integers, Sequences, FiniteSets, TLC

\* ------------------------------------------------------------------ bounds
\* Capacity of the limiter (slots that may be in use at once).
MaxQpm == 1
\* Number of other invocations that run concurrently with the handler.
NumCallers == 2
\* Number of waiter ids init_waiter hands out before no further invocation
\* is started.
MaxTickets == 3
\* Largest value of the num_retries parameter that is explored.
MaxRetries == 2
\* Largest number of messages in the triggering thread that is explored.
MaxThreadMsgs == 2

\* The caller id of the invocation of handle_regular_answer under study.
Handler == 0
Rivals == 1..NumCallers
Callers == {Handler} \cup Rivals

None == "None"

\* An optional list of receiver ids: None, or a list.
NoReceivers == [given |-> FALSE, ids |-> <<>>]
ReceiverList(s) == [given |-> TRUE, ids |-> s]
\* Python's truth value of an optional list.
Truthy(r) == r.given /\ Len(r.ids) > 0

VARIABLES
    \* --- srl, the process-wide limiter
    active_question,    \* slots currently in use
    waiting_questions,  \* queue of waiter ids, in registration order
    next_randid,        \* the next waiter id init_waiter hands out
    \* --- one activation of the wrapper of rate_limits per caller
    gpc,                \* position of each caller inside wrapper()
    func_randid,        \* waiter id init_waiter returned to the caller
    position,           \* queue position init_waiter returned to the caller
    notified,           \* srl.notify has told the caller its position
    \* --- history of the gate
    registered,         \* callers that registered and have not acquired yet
    ahead,              \* waiters that were registered before the caller
    acquired,           \* acquire_slot calls of the caller's invocation
    \* --- the invocation of handle_regular_answer
    msg,                \* message_info, the channel's is_ephemeral, receiver_ids
    cfg,                \* num_retries, the policy flags, the persona's search tool
    hpc,                \* position inside handle_regular_answer
    attempts,           \* calls of _get_slack_answer started by retry
    onyx_user,          \* the user handed to _get_slack_answer
    answer,             \* the value bound to answer at line 241
    outcome,            \* the branch of the classifier that was taken
    posts,              \* messages posted, in order
    react,              \* the processing reaction is on the message
    followup,           \* the follow-up reaction is on the message
    response,           \* the flags handed to build_slack_response_blocks
    built_blocks,       \* the list build_slack_response_blocks returned
    all_blocks,         \* the list handed to the post of the answer
    ret,                \* the value returned
    raised,             \* the exception that left the function
    post_failed,        \* a call that posts a message raised
    caught,             \* an except clause caught a failed post
    \* --- the database of search_settings.py
    search_settings,    \* the SearchSettings rows, by id
    index_attempts,     \* the IndexAttempt rows
    next_settings_id,   \* the id the next SearchSettings row gets
    next_attempt_id,    \* the id the next IndexAttempt row gets
    db_call,            \* the last call of a function of search_settings.py
    db_result,          \* the ids of the rows it returned, in order
    db_raised,          \* the exception it raised
    PRESERVED_SEARCH_FIELDS  \* shared_configs.configs.PRESERVED_SEARCH_FIELDS

limiter == <<active_question, waiting_questions, next_randid>>
locals == <<gpc, func_randid, position, notified>>
history == <<registered, ahead, acquired>>
gvars == <<limiter, locals, history>>
inputs == <<msg, cfg>>
hvars == <<msg, cfg, hpc, attempts, onyx_user, answer, outcome, posts, react,
           followup, response, built_blocks, all_blocks, ret, raised, post_failed, caught>>
tables == <<search_settings, index_attempts, next_settings_id, next_attempt_id>>
dvars == <<tables, db_call, db_result, db_raised, PRESERVED_SEARCH_FIELDS>>
vars == <<gvars, hvars, dvars>>

Range(s) == {s[i] : i \in 1..Len(s)}
Without(s, c) == SelectSeq(s, LAMBDA x : x # c)

\* ------------------------------------------------- SlackRateLimiter (4.1)
\* isAvailable(): a slot is free.
is_available == active_question < MaxQpm

\* initWaiter(): appends a fresh waiter id to the queue; the caller gets the
\* id and its position in the queue.
init_waiter == Append(waiting_questions, next_randid)

InQueue(id) == \E i \in 1..Len(waiting_questions) : waiting_questions[i] = id

\* wait(waiterId) returns once a slot is free and the id is the first one
\* registered (FIFO admission); an id that was admitted before, and is
\* waited for again, only waits for a free slot.
waiter_may_return(id) ==
    /\ is_available
    /\ IF InQueue(id) THEN Head(waiting_questions) = id ELSE TRUE

\* The queue after wait(waiterId) returned: the admitted id leaves it.
waiter_dequeue(id) ==
    IF InQueue(id) THEN Tail(waiting_questions) ELSE waiting_questions

\* acquireSlot(): one more slot is in use.
acquire_slot == active_question + 1

\* A slot is released (the limiter frees slots as time passes).
Refill ==
    /\ active_question > 0
    /\ \E k \in 1..active_question : active_question' = active_question - k
    /\ UNCHANGED <<dvars, waiting_questions, next_randid, locals, history, hvars>>

\* ------------------------------------------- rate_limits.wrapper, by step
\* wrapper(*args, **kwargs) is entered.
WrapperCall(c) ==
    /\ gpc[c] = "idle"
    /\ gpc' = [gpc EXCEPT ![c] = "check"]
    /\ ahead' = [ahead EXCEPT ![c] = Range(registered)]

\* wrapper returns, or the exception of func leaves it.
WrapperReturn(c) ==
    /\ gpc[c] = "func"
    /\ gpc' = [gpc EXCEPT ![c] = "idle"]
    /\ func_randid' = [func_randid EXCEPT ![c] = 0]
    /\ position' = [position EXCEPT ![c] = 0]
    /\ notified' = [notified EXCEPT ![c] = FALSE]

\* Faulty variant of CheckAvailable: a caller that finds a slot free calls func
\* without acquire_slot.
CheckAvailable_SkipsAcquire(c) ==
    /\ gpc[c] = "check"
    /\ gpc' = [gpc EXCEPT ![c] = IF is_available THEN "func" ELSE "init_waiter"]
    /\ UNCHANGED <<dvars, limiter, func_randid, position, notified, history, hvars>>

\* line 53: if not srl.is_available()
CheckAvailable(c) ==
    /\ gpc[c] = "check"
    /\ gpc' = [gpc EXCEPT ![c] = IF is_available THEN "acquire" ELSE "init_waiter"]
    /\ UNCHANGED <<dvars, limiter, func_randid, position, notified, history, hvars>>

\* line 54: func_randid, position = srl.init_waiter()
InitWaiter(c) ==
    /\ gpc[c] = "init_waiter"
    /\ waiting_questions' = init_waiter
    /\ next_randid' = next_randid + 1
    /\ func_randid' = [func_randid EXCEPT ![c] = next_randid]
    /\ position' = [position EXCEPT ![c] = Len(waiting_questions')]
    /\ registered' = Append(registered, c)
    /\ ahead' = [ahead EXCEPT ![c] = Range(registered)]
    /\ gpc' = [gpc EXCEPT ![c] = "notify"]
    /\ UNCHANGED <<dvars, active_question, notified, acquired, hvars>>

\* line 55: srl.notify(client, channel, position, thread_ts)
Notify(c) ==
    /\ gpc[c] = "notify"
    /\ notified' = [notified EXCEPT ![c] = TRUE]
    /\ gpc' = [gpc EXCEPT ![c] = "loop"]
    /\ UNCHANGED <<dvars, limiter, func_randid, position, history, hvars>>

\* line 56: while not srl.is_available()
LoopTest(c) ==
    /\ gpc[c] = "loop"
    /\ gpc' = [gpc EXCEPT ![c] = IF is_available THEN "acquire" ELSE "waiter"]
    /\ UNCHANGED <<dvars, limiter, func_randid, position, notified, history, hvars>>

\* line 57: srl.waiter(func_randid)
Waiter(c) ==
    /\ gpc[c] = "waiter"
    /\ waiter_may_return(func_randid[c])
    /\ waiting_questions' = waiter_dequeue(func_randid[c])
    /\ gpc' = [gpc EXCEPT ![c] = "loop"]
    /\ UNCHANGED <<dvars, active_question, next_randid, func_randid, position,
                   notified, history, hvars>>

\* line 58: srl.acquire_slot()
AcquireSlot(c) ==
    /\ gpc[c] = "acquire"
    /\ active_question' = acquire_slot
    /\ acquired' = [acquired EXCEPT ![c] = @ + 1]
    /\ registered' = Without(registered, c)
    /\ ahead' = [x \in Callers |-> ahead[x] \ {c}]
    /\ gpc' = [gpc EXCEPT ![c] = "func"]
    /\ UNCHANGED <<dvars, waiting_questions, next_randid, func_randid, position,
                   notified, hvars>>

GateStep(c) ==
    \/ CheckAvailable(c)
    \/ InitWaiter(c)
    \/ Notify(c)
    \/ LoopTest(c)
    \/ Waiter(c)
    \/ AcquireSlot(c)

\* ------------------------------------------------ the other invocations
\* Every caller that is about to test the limiter can still get a waiter id.
TicketsLeft ==
    (next_randid - 1)
      + Cardinality({c \in Callers : gpc[c] \in {"check", "init_waiter"}})
    < MaxTickets

\* Another invocation calls its wrapped fetch ...
Arrive(c) ==
    /\ c \in Rivals
    /\ TicketsLeft
    /\ WrapperCall(c)
    /\ acquired' = [acquired EXCEPT ![c] = 0]
    /\ UNCHANGED <<dvars, limiter, func_randid, position, notified, registered, hvars>>

\* ... and line 59, return func(*args, **kwargs), of that invocation.
FuncReturn(c) ==
    /\ c \in Rivals
    /\ WrapperReturn(c)
    /\ UNCHANGED <<dvars, limiter, history, hvars>>

\* --------------------------------------------------------------- inputs
ReceiverChoices ==
    {NoReceivers, ReceiverList(<<>>), ReceiverList(<<"r1">>),
     ReceiverList(<<"r1", "r2">>)}

\* Where the reply goes: message_info, channel_config["is_ephemeral"] and
\* the receiver_ids argument.
Messages ==
    [msg_to_respond : {None, "ts"}, is_bot_msg : BOOLEAN, is_bot_dm : BOOLEAN,
     thread_messages : 1..MaxThreadMsgs, sender_id : {None, "sender"},
     email : {None, "email"}, is_ephemeral : BOOLEAN,
     receiver_ids : ReceiverChoices]

\* What decides the outcome: num_retries, the policy arguments, the
\* "well_answered_postfilter" answer filter of the channel,
\* message_info.bypass_filters, persona_has_search_tool and the global
\* DISABLE_GENERATIVE_AI.
Configs ==
    [num_retries : 0..MaxRetries, should_respond_with_error_msgs : BOOLEAN,
     disable_docs_only_answer : BOOLEAN, expecting_search_result : BOOLEAN,
     only_respond_if_citations : BOOLEAN, bypass_filters : BOOLEAN,
     DISABLE_GENERATIVE_AI : BOOLEAN]

\* A message in a channel, answered in its thread to one receiver ...
BaseMessages ==
    {m \in Messages :
        /\ m.msg_to_respond = "ts" /\ ~m.is_bot_msg /\ ~m.is_bot_dm
        /\ m.thread_messages = 1 /\ m.sender_id = "sender"
        /\ m.email = "email" /\ m.receiver_ids = ReceiverList(<<"r1">>)}

\* ... and the configuration under which every branch can be taken.
BaseConfigs ==
    {c \in Configs :
        /\ c.num_retries \in {0, 1} /\ c.should_respond_with_error_msgs
        /\ c.disable_docs_only_answer /\ c.expecting_search_result
        /\ c.only_respond_if_citations /\ ~c.bypass_filters
        /\ c.DISABLE_GENERATIVE_AI}

\* The invocations explored: every message under a base configuration and
\* every configuration for a base message.
Invocations == (Messages \X BaseConfigs) \cup (BaseMessages \X Configs)

\* The ChatOnyxBotResponse a successful fetch returns: answer_valid, docs
\* (absent, without top documents, with top documents), whether there is an
\* answer text and whether there are citations.
Answers ==
    [kind : {"object"}, answer_valid : BOOLEAN, docs : {None, "empty", "some"},
     answer : BOOLEAN, citations : BOOLEAN]
AnswerUnset ==
    [kind |-> "unset", answer_valid |-> TRUE, docs |-> None, answer |-> FALSE,
     citations |-> FALSE]
AnswerNone == [AnswerUnset EXCEPT !.kind = None]

\* ------------------------------------- handle_regular_answer, lines 79-114
message_ts_to_respond_to == msg.msg_to_respond

send_as_ephemeral == msg.is_ephemeral /\ ~msg.is_bot_dm

user == IF msg.email # None THEN "user" ELSE None

\* Faulty variant of target_thread_ts: the thread length is compared with 1.
target_thread_ts_OffByOne ==
    IF send_as_ephemeral /\ msg.thread_messages < 1
    THEN None
    ELSE message_ts_to_respond_to

target_thread_ts ==
    IF send_as_ephemeral /\ msg.thread_messages < 2
    THEN None
    ELSE message_ts_to_respond_to

\* Faulty variant of target_receiver_ids: the receiver_ids of the caller
\* are used for every response.
target_receiver_ids_CallerSupplied == msg.receiver_ids

target_receiver_ids ==
    IF msg.sender_id # None /\ send_as_ephemeral
    THEN ReceiverList(<<msg.sender_id>>)
    ELSE msg.receiver_ids

\* Faulty variant of can_search_over_private_docs: every message with a
\* known sender searches with the sender's documents.
can_search_over_private_docs_AnySender == user # None

\* line 240
can_search_over_private_docs == msg.is_bot_dm \/ send_as_ephemeral

\* One call of respond_in_thread_or_channel or send_team_member_message.
Post(kind, receivers) ==
    [kind |-> kind, receiver_ids |-> receivers, thread_ts |-> target_thread_ts,
     send_as_ephemeral |-> send_as_ephemeral]

Return(v) == hpc' = "returned" /\ ret' = v /\ UNCHANGED raised
Raise(e) == hpc' = "raised" /\ raised' = e /\ UNCHANGED ret

\* Faulty variant of HStart: the timestamp is not checked.
HStart_NoCheck ==
    /\ hpc = "start"
    /\ hpc' = "try"
    /\ UNCHANGED <<dvars, gvars, inputs, attempts, onyx_user, answer, outcome, posts,
                   react, followup, response, built_blocks, all_blocks, ret,
                   raised, post_failed, caught>>

\* Faulty variant of HStart: is_bot_msg is not consulted.
HStart_IgnoresBotMsg ==
    /\ hpc = "start"
    /\ IF message_ts_to_respond_to = None
       THEN Raise("RuntimeError")
       ELSE hpc' = "try" /\ UNCHANGED <<ret, raised>>
    /\ UNCHANGED <<dvars, gvars, inputs, attempts, onyx_user, answer, outcome, posts,
                   react, followup, response, built_blocks, all_blocks, post_failed, caught>>

\* lines 167-171: a message that is no command has a timestamp.
HStart ==
    /\ hpc = "start"
    /\ IF message_ts_to_respond_to = None /\ ~msg.is_bot_msg
       THEN Raise("RuntimeError")
       ELSE hpc' = "try" /\ UNCHANGED <<ret, raised>>
    /\ UNCHANGED <<dvars, gvars, inputs, attempts, onyx_user, answer, outcome, posts,
                   react, followup, response, built_blocks, all_blocks, post_failed, caught>>

\* lines 200-236: the request is prepared; an exception goes to line 246.
HPrepare ==
    /\ hpc = "try"
    /\ \E ok \in BOOLEAN : hpc' = IF ok THEN "fetch" ELSE "except"
    /\ UNCHANGED <<dvars, gvars, inputs, attempts, onyx_user, answer, outcome, posts,
                   react, followup, response, built_blocks, all_blocks, ret, raised, post_failed, caught>>

\* lines 173-177 and 241: retry(tries=num_retries) returns None without a
\* call when no try is left at the start ("while _tries").
HRetryNoTries ==
    /\ hpc = "fetch"
    /\ cfg.num_retries = 0
    /\ answer' = AnswerNone
    /\ onyx_user' = IF can_search_over_private_docs THEN user ELSE None
    /\ hpc' = "answered"
    /\ UNCHANGED <<dvars, gvars, inputs, attempts, outcome, posts, react, followup,
                   response, built_blocks, all_blocks, ret, raised, post_failed, caught>>

\* lines 173-178 and 241-244: retry calls the rate-limited fetch.
HRetryCall ==
    /\ hpc = "fetch"
    /\ attempts < cfg.num_retries
    /\ WrapperCall(Handler)
    /\ attempts' = attempts + 1
    /\ onyx_user' = IF can_search_over_private_docs THEN user ELSE None
    /\ UNCHANGED <<dvars, limiter, func_randid, position, notified, registered,
                   acquired, inputs, hpc, answer, outcome, posts, react,
                   followup, response, built_blocks, all_blocks, ret, raised, post_failed, caught>>

\* Faulty variant of HFetchFails: retry gives up one failure too late.
HFetchFails_OffByOne ==
    /\ hpc = "fetch"
    /\ WrapperReturn(Handler)
    /\ hpc' = IF attempts > cfg.num_retries THEN "except" ELSE "fetch"
    /\ UNCHANGED <<dvars, limiter, history, inputs, attempts, onyx_user, answer,
                   outcome, posts, react, followup, response, built_blocks, all_blocks, ret, raised,
                   post_failed, caught>>

\* lines 184-196: the fetch raises, or returns an answer with error_msg (or
\* no answer object at all); retry tries again while tries are left and
\* lets the last exception through to line 246.
HFetchFails ==
    /\ hpc = "fetch"
    /\ WrapperReturn(Handler)
    /\ hpc' = IF attempts = cfg.num_retries THEN "except" ELSE "fetch"
    /\ UNCHANGED <<dvars, limiter, history, inputs, attempts, onyx_user, answer,
                   outcome, posts, react, followup, response, built_blocks, all_blocks, ret, raised,
                   post_failed, caught>>

\* line 198: the fetch returns an answer without error_msg.
HFetchReturns ==
    /\ hpc = "fetch"
    /\ WrapperReturn(Handler)
    /\ \E a \in Answers : answer' = a
    /\ hpc' = "answered"
    /\ UNCHANGED <<dvars, limiter, history, inputs, attempts, onyx_user, outcome,
                   posts, react, followup, response, built_blocks, all_blocks, ret, raised, post_failed,
                   caught>>

\* Faulty variant of HExcept: the processing reaction is left in place.
HExcept_KeepsReaction ==
    /\ hpc = "except"
    /\ outcome' = "ServiceFailure"
    /\ \E post_ok \in BOOLEAN :
         LET wanted == cfg.should_respond_with_error_msgs
             fails == wanted /\ ~post_ok
         IN  /\ posts' = IF wanted /\ post_ok
                         THEN Append(posts, Post("error", target_receiver_ids))
                         ELSE posts
             /\ post_failed' = (post_failed \/ fails)
             /\ IF fails THEN Raise("PostError") ELSE Return("True")
    /\ UNCHANGED <<dvars, gvars, inputs, attempts, onyx_user, answer, react, followup,
                   response, built_blocks, all_blocks, caught>>

\* lines 246-272: the fetch did not succeed.
HExcept ==
    /\ hpc = "except"
    /\ outcome' = "ServiceFailure"
    /\ \E post_ok, react_ok \in BOOLEAN :
         LET wanted == cfg.should_respond_with_error_msgs
             fails == wanted /\ ~post_ok
         IN  /\ posts' = IF wanted /\ post_ok
                         THEN Append(posts, Post("error", target_receiver_ids))
                         ELSE posts
             /\ post_failed' = (post_failed \/ fails)
             /\ IF fails
                THEN Raise("PostError") /\ UNCHANGED react
                ELSE IF ~react_ok
                THEN Raise("ReactError") /\ UNCHANGED react
                ELSE react' = FALSE /\ Return("True")
    /\ UNCHANGED <<dvars, gvars, inputs, attempts, onyx_user, answer, followup,
                   response, built_blocks, all_blocks, caught>>

\* lines 275-276: no answer object although generation is enabled.
HAssertFails ==
    /\ hpc = "answered"
    /\ answer.kind = None
    /\ ~cfg.DISABLE_GENERATIVE_AI
    /\ Raise("AssertionError")
    /\ UNCHANGED <<dvars, gvars, inputs, attempts, onyx_user, answer, outcome, posts,
                   react, followup, response, built_blocks, all_blocks, post_failed, caught>>

\* Faulty variant of HMaintenance: the second message is sent for an
\* ephemeral response too.
HMaintenance_ForwardsEphemeral ==
    /\ hpc = "answered"
    /\ answer.kind = None
    /\ cfg.DISABLE_GENERATIVE_AI
    /\ outcome' = "EmptyAnswerUnderMaintenance"
    /\ \E ok1, ok2 \in BOOLEAN :
         LET second == Truthy(target_receiver_ids)
             fails == ~ok1 \/ (second /\ ~ok2)
         IN  /\ posts' = posts
                  \o (IF ok1
                      THEN <<Post("maintenance", target_receiver_ids)>>
                      ELSE <<>>)
                  \o (IF ok1 /\ second /\ ok2
                      THEN <<Post("forwarded", NoReceivers)>>
                      ELSE <<>>)
             /\ post_failed' = (post_failed \/ fails)
             /\ caught' = (caught \/ fails)
             /\ Return(IF fails THEN "True" ELSE "False")
    /\ UNCHANGED <<dvars, gvars, inputs, attempts, onyx_user, answer, react, followup,
                   response, built_blocks, all_blocks>>

\* lines 277-316: no answer object, generation is disabled.
HMaintenance ==
    /\ hpc = "answered"
    /\ answer.kind = None
    /\ cfg.DISABLE_GENERATIVE_AI
    /\ outcome' = "EmptyAnswerUnderMaintenance"
    /\ \E ok1, ok2 \in BOOLEAN :
         LET second == Truthy(target_receiver_ids) /\ ~send_as_ephemeral
             fails == ~ok1 \/ (second /\ ~ok2)
         IN  /\ posts' = posts
                  \o (IF ok1
                      THEN <<Post("maintenance", target_receiver_ids)>>
                      ELSE <<>>)
                  \o (IF ok1 /\ second /\ ok2
                      THEN <<Post("forwarded", NoReceivers)>>
                      ELSE <<>>)
             /\ post_failed' = (post_failed \/ fails)
             /\ caught' = (caught \/ fails)
             /\ Return(IF fails THEN "True" ELSE "False")
    /\ UNCHANGED <<dvars, gvars, inputs, attempts, onyx_user, answer, react, followup,
                   response, built_blocks, all_blocks>>

\* lines 318-325: the processing reaction is removed.
HRemoveReaction ==
    /\ hpc = "answered"
    /\ answer.kind = "object"
    /\ \E react_ok \in BOOLEAN :
         IF react_ok
         THEN react' = FALSE /\ hpc' = "classify" /\ UNCHANGED <<ret, raised>>
         ELSE Raise("ReactError") /\ UNCHANGED react
    /\ UNCHANGED <<dvars, gvars, inputs, attempts, onyx_user, answer, outcome, posts,
                   followup, response, built_blocks, all_blocks, post_failed, caught>>

\* The conditions of lines 327, 344, 349, 366 and 378-383.
AnswerInvalid == answer.answer_valid = FALSE
NoRetrievalInfo == answer.docs = None /\ cfg.expecting_search_result
NoTopDocs == answer.docs \in {None, "empty"} /\ cfg.expecting_search_result
DocsOnlySuppressed == ~answer.answer /\ cfg.disable_docs_only_answer
CitationsMissing ==
    /\ cfg.expecting_search_result
    /\ cfg.only_respond_if_citations
    /\ ~answer.citations
    /\ ~cfg.bypass_filters

\* Faulty variant of Branch: the documents are tested before the validity
\* of the answer.
Branch_DocsBeforeInvalid ==
    IF NoRetrievalInfo THEN "RuntimeError"
    ELSE IF NoTopDocs THEN "MissingExpectedDocuments"
    ELSE IF AnswerInvalid THEN "InvalidAnswer"
    ELSE IF DocsOnlySuppressed THEN "DocsOnlyAnswerSuppressed"
    ELSE IF CitationsMissing THEN "CitationRequired"
    ELSE "Valid"

\* Faulty variant of Branch: the citations are tested before the documents.
Branch_CitationsFirst ==
    IF AnswerInvalid THEN "InvalidAnswer"
    ELSE IF CitationsMissing THEN "CitationRequired"
    ELSE IF NoRetrievalInfo THEN "RuntimeError"
    ELSE IF NoTopDocs THEN "MissingExpectedDocuments"
    ELSE IF DocsOnlySuppressed THEN "DocsOnlyAnswerSuppressed"
    ELSE "Valid"

\* lines 327-398: the branch taken, the conditions tested in this order.
Branch ==
    IF AnswerInvalid THEN "InvalidAnswer"
    ELSE IF NoRetrievalInfo THEN "RuntimeError"
    ELSE IF NoTopDocs THEN "MissingExpectedDocuments"
    ELSE IF DocsOnlySuppressed THEN "DocsOnlyAnswerSuppressed"
    ELSE IF CitationsMissing THEN "CitationRequired"
    ELSE "Valid"

\* lines 327-341: the answer was evaluated to be invalid.
HInvalid ==
    /\ hpc = "classify"
    /\ Branch = "InvalidAnswer"
    /\ outcome' = "InvalidAnswer"
    /\ \E react_ok \in BOOLEAN :
         IF react_ok
         THEN followup' = TRUE /\ Return("True")
         ELSE Raise("ReactError") /\ UNCHANGED followup
    /\ UNCHANGED <<dvars, gvars, inputs, attempts, onyx_user, answer, posts, react,
                   response, built_blocks, all_blocks, post_failed, caught>>

\* lines 343-346: no retrieval info although a search was expected.
HNoRetrievalInfo ==
    /\ hpc = "classify"
    /\ Branch = "RuntimeError"
    /\ Raise("RuntimeError")
    /\ UNCHANGED <<dvars, gvars, inputs, attempts, onyx_user, answer, outcome, posts,
                   react, followup, response, built_blocks, all_blocks, post_failed, caught>>

\* Faulty variant of Notice: the notice is posted whether or not error
\* messages are displayed.
Notice_Always(kind) ==
    \E post_ok \in BOOLEAN :
      /\ posts' = IF post_ok
                  THEN Append(posts, Post(kind, target_receiver_ids))
                  ELSE posts
      /\ post_failed' = (post_failed \/ ~post_ok)
      /\ IF ~post_ok THEN Raise("PostError") ELSE Return("True")

\* A notice that is posted when error messages are displayed, outside any
\* try block (lines 355-364 and 389-398).
Notice(kind) ==
    \E post_ok \in BOOLEAN :
      LET wanted == cfg.should_respond_with_error_msgs
          fails == wanted /\ ~post_ok
      IN  /\ posts' = IF wanted /\ post_ok
                      THEN Append(posts, Post(kind, target_receiver_ids))
                      ELSE posts
          /\ post_failed' = (post_failed \/ fails)
          /\ IF fails THEN Raise("PostError") ELSE Return("True")

\* lines 348-364: a search was expected and found no documents.
HMissingDocs ==
    /\ hpc = "classify"
    /\ Branch = "MissingExpectedDocuments"
    /\ outcome' = "MissingExpectedDocuments"
    /\ Notice("no_docs")
    /\ UNCHANGED <<dvars, gvars, inputs, attempts, onyx_user, answer, react, followup,
                   response, built_blocks, all_blocks, caught>>

\* lines 366-371: no answer text and docs-only answers are disabled.
HDocsOnly ==
    /\ hpc = "classify"
    /\ Branch = "DocsOnlyAnswerSuppressed"
    /\ outcome' = "DocsOnlyAnswerSuppressed"
    /\ Return("True")
    /\ UNCHANGED <<dvars, gvars, inputs, attempts, onyx_user, answer, posts, react,
                   followup, response, built_blocks, all_blocks, post_failed, caught>>

\* lines 373-398: citations are required and the answer has none.
HCitationRequired ==
    /\ hpc = "classify"
    /\ Branch = "CitationRequired"
    /\ outcome' = "CitationRequired"
    /\ Notice("no_citations")
    /\ UNCHANGED <<dvars, gvars, inputs, attempts, onyx_user, answer, react, followup,
                   response, built_blocks, all_blocks, caught>>

\* Faulty variant of offer_ephemeral_publication: any non-empty receiver
\* list qualifies.
offer_ephemeral_publication_AnyReceivers ==
    /\ send_as_ephemeral
    /\ Truthy(target_receiver_ids)

\* lines 400-409
offer_ephemeral_publication ==
    /\ send_as_ephemeral
    /\ target_receiver_ids.given
    /\ Len(target_receiver_ids.ids) = 1
skip_ai_feedback == offer_ephemeral_publication

\* Faulty variant of notify_team_members: the timestamps are not tested.
notify_team_members_NoTimestamp ==
    /\ Truthy(target_receiver_ids)
    /\ ~send_as_ephemeral

\* lines 444-449
notify_team_members ==
    /\ Truthy(target_receiver_ids)
    /\ message_ts_to_respond_to # None
    /\ ~send_as_ephemeral
    /\ target_thread_ts # None

\* line 425: the limit of Slack on the size of a block list.
MaxBlocks == 50

\* The lengths of the lists build_slack_response_blocks returns (lines
\* 411-420): none, below the limit, at the limit, above it.
BlockCounts == {0, 1, MaxBlocks - 1, MaxBlocks, MaxBlocks + 1, MaxBlocks + 10}

\* A list of n blocks, each block named by its place in the list.
Blocks(n) == [i \in 1..n |-> i]

\* Faulty variant of Truncated: one block more is kept.
Truncated_OneMore(blocks) ==
    SubSeq(blocks, 1, IF Len(blocks) < MaxBlocks + 1 THEN Len(blocks)
                      ELSE MaxBlocks + 1)

\* line 425: all_blocks[:50]
Truncated(blocks) ==
    SubSeq(blocks, 1, IF Len(blocks) < MaxBlocks THEN Len(blocks) ELSE MaxBlocks)

\* lines 400-464: the answer is posted.
HValid ==
    /\ hpc = "classify"
    /\ Branch = "Valid"
    /\ outcome' = "Valid"
    /\ response' = [set |-> TRUE,
                    offer_ephemeral_publication |-> offer_ephemeral_publication,
                    skip_ai_feedback |-> skip_ai_feedback]
    /\ \E n \in BlockCounts :
         /\ built_blocks' = Blocks(n)
         /\ all_blocks' = Truncated(Blocks(n))
    /\ \E ok1, ok2 \in BOOLEAN :
         LET second == notify_team_members
             fails == ~ok1 \/ (second /\ ~ok2)
         IN  /\ posts' = posts
                  \o (IF ok1
                      THEN <<Post("answer", target_receiver_ids)>>
                      ELSE <<>>)
                  \o (IF ok1 /\ second /\ ok2
                      THEN <<Post("team_member", target_receiver_ids)>>
                      ELSE <<>>)
             /\ post_failed' = (post_failed \/ fails)
             /\ caught' = (caught \/ fails)
             /\ Return(IF fails THEN "True" ELSE "False")
    /\ UNCHANGED <<dvars, gvars, inputs, attempts, onyx_user, answer, react, followup>>

\* ------------------------------------------------- db/search_settings.py
\* SearchSettings rows that are ever created.
MaxSettings == 3
\* IndexAttempt rows that are ever created.
MaxAttempts == 2

\* IndexModelStatus
IndexModelStatus == {"PAST", "PRESENT", "FUTURE"}

\* Two of the fields of SavedSearchSettings that create_search_settings
\* copies into the row (lines 43 and 62), and the values they take.
FieldNames == {"model_name", "num_rerank"}
FieldValues == {"v1", "v2"}
SavedSearchSettings == [FieldNames -> FieldValues]
DefaultSettings == [f \in FieldNames |-> "v1"]

\* The value of the id of "no row": the None of a query without result.
NoRow == 0

\* The ids of the rows in the table.
Ids == DOMAIN search_settings

\* Faulty variant of LatestWithStatus: the rows are ordered by ascending id.
LatestWithStatus_Ascending(status) ==
    LET ids == {i \in Ids : search_settings[i].status = status}
    IN  IF ids = {} THEN NoRow
        ELSE CHOOSE i \in ids : \A j \in ids : i <= j

\* ... .order_by(SearchSettings.id.desc()) ... .scalars().first() over the
\* rows of one status: the row with the highest id, or no row.
LatestWithStatus(status) ==
    LET ids == {i \in Ids : search_settings[i].status = status}
    IN  IF ids = {} THEN NoRow
        ELSE CHOOSE i \in ids : \A j \in ids : j <= i

\* Faulty variant of get_current_search_settings: the oldest PRESENT row.
get_current_search_settings_Oldest ==
    LET ids == {i \in Ids : search_settings[i].status = "PRESENT"}
    IN  IF ids = {} THEN NoRow
        ELSE CHOOSE i \in ids : \A j \in ids : i <= j

\* lines 129-140: the row get_current_search_settings returns; it raises
\* RuntimeError when this is no row.
get_current_search_settings == LatestWithStatus("PRESENT")

\* lines 143-152
get_secondary_search_settings == LatestWithStatus("FUTURE")

\* One call of a function of this module has ended.
Called(op, arg, result, exception) ==
    /\ db_call' = [op |-> op, arg |-> arg]
    /\ db_result' = result
    /\ db_raised' = exception

\* lines 38-70: a row with a fresh id is added and committed.
create_search_settings(saved, status) ==
    /\ next_settings_id <= MaxSettings
    /\ search_settings' =
          [i \in Ids \cup {next_settings_id} |->
              IF i = next_settings_id
              THEN [status |-> status, model_name |-> saved["model_name"],
                    num_rerank |-> saved["num_rerank"]]
              ELSE search_settings[i]]
    /\ next_settings_id' = next_settings_id + 1
    /\ Called("create_search_settings", next_settings_id,
              <<next_settings_id>>, "none")
    /\ UNCHANGED <<gvars, hvars, PRESERVED_SEARCH_FIELDS, index_attempts, next_attempt_id>>

\* An index attempt is recorded for a row (by the indexing jobs).
CreateIndexAttempt(id) ==
    /\ next_attempt_id <= MaxAttempts
    /\ id \in Ids
    /\ index_attempts' = index_attempts
          \cup {[id |-> next_attempt_id, search_settings_id |-> id]}
    /\ next_attempt_id' = next_attempt_id + 1
    /\ UNCHANGED <<gvars, hvars, PRESERVED_SEARCH_FIELDS, search_settings, next_settings_id, db_call,
                   db_result, db_raised>>

\* Faulty variant of delete_search_settings: the id is not compared with
\* the current settings.
delete_search_settings_NoCurrentCheck(search_settings_id) ==
    LET current == get_current_search_settings
    IN  /\ IF current = NoRow
           THEN /\ Called("delete_search_settings", search_settings_id, <<>>,
                          "RuntimeError")
                /\ UNCHANGED tables
           ELSE /\ index_attempts' =
                      {a \in index_attempts :
                          a.search_settings_id # search_settings_id}
                /\ search_settings' =
                      [i \in {j \in Ids :
                                 ~(j = search_settings_id
                                   /\ search_settings[j].status # "PRESENT")}
                          |-> search_settings[i]]
                /\ Called("delete_search_settings", search_settings_id, <<>>,
                          "none")
                /\ UNCHANGED <<next_settings_id, next_attempt_id>>
        /\ UNCHANGED <<gvars, hvars, PRESERVED_SEARCH_FIELDS>>

\* lines 105-126
delete_search_settings(search_settings_id) ==
    LET current == get_current_search_settings
    IN  /\ IF current = NoRow
           THEN /\ Called("delete_search_settings", search_settings_id, <<>>,
                          "RuntimeError")
                /\ UNCHANGED tables
           ELSE IF current = search_settings_id
           THEN /\ Called("delete_search_settings", search_settings_id, <<>>,
                          "ValueError")
                /\ UNCHANGED tables
           ELSE /\ index_attempts' =
                      {a \in index_attempts :
                          a.search_settings_id # search_settings_id}
                /\ search_settings' =
                      [i \in {j \in Ids :
                                 ~(j = search_settings_id
                                   /\ search_settings[j].status # "PRESENT")}
                          |-> search_settings[i]]
                /\ Called("delete_search_settings", search_settings_id, <<>>,
                          "none")
                /\ UNCHANGED <<next_settings_id, next_attempt_id>>
        /\ UNCHANGED <<gvars, hvars, PRESERVED_SEARCH_FIELDS>>

\* lines 248-252
update_search_settings_status(id, new_status) ==
    /\ id \in Ids
    /\ search_settings' = [search_settings EXCEPT ![id].status = new_status]
    /\ Called("update_search_settings_status", id, <<>>, "none")
    /\ UNCHANGED <<gvars, hvars, PRESERVED_SEARCH_FIELDS, index_attempts, next_settings_id,
                   next_attempt_id>>

\* lines 155-177: get_active_search_settings and the list made of it.
get_active_search_settings_list ==
    LET primary == get_current_search_settings
        secondary == get_secondary_search_settings
    IN  /\ IF primary = NoRow
           THEN Called("get_active_search_settings_list", NoRow, <<>>,
                       "RuntimeError")
           ELSE Called("get_active_search_settings_list", NoRow,
                       <<primary>>
                          \o (IF secondary # NoRow THEN <<secondary>> ELSE <<>>),
                       "none")
        /\ UNCHANGED <<gvars, hvars, PRESERVED_SEARCH_FIELDS, tables>>

\* lines 129-140, called on its own: the current settings are returned, or
\* RuntimeError is raised when there are none.
call_get_current_search_settings ==
    /\ IF get_current_search_settings = NoRow
       THEN Called("get_current_search_settings", NoRow, <<>>, "RuntimeError")
       ELSE Called("get_current_search_settings", NoRow,
                   <<get_current_search_settings>>, "none")
    /\ UNCHANGED <<gvars, hvars, PRESERVED_SEARCH_FIELDS, tables>>

\* lines 143-152, called on its own: the secondary settings are returned,
\* or None.
call_get_secondary_search_settings ==
    /\ Called("get_secondary_search_settings", NoRow,
              IF get_secondary_search_settings = NoRow THEN <<>>
              ELSE <<get_secondary_search_settings>>,
              "none")
    /\ UNCHANGED <<gvars, hvars, PRESERVED_SEARCH_FIELDS, tables>>

\* lines 198-205: every field of the supplied settings that is not named
\* in preserved_fields is set on the row.
update_search_settings(current_settings, updated_settings, preserved_fields) ==
    [f \in DOMAIN current_settings |->
        IF f \in FieldNames /\ f \notin preserved_fields
        THEN updated_settings[f]
        ELSE current_settings[f]]

\* lines 208-228 (the warm-up of the reranking model, lines 217-224, does
\* not touch the tables)
update_current_search_settings(saved, preserved_fields) ==
    LET current_settings == get_current_search_settings
    IN  /\ IF current_settings = NoRow
           THEN /\ Called("update_current_search_settings", NoRow, <<>>,
                          "RuntimeError")
                /\ UNCHANGED tables
           ELSE /\ search_settings' =
                      [search_settings EXCEPT ![current_settings] =
                          update_search_settings(@, saved, preserved_fields)]
                /\ Called("update_current_search_settings", current_settings,
                          <<>>, "none")
                /\ UNCHANGED <<index_attempts, next_settings_id,
                               next_attempt_id>>
        /\ UNCHANGED <<gvars, hvars, PRESERVED_SEARCH_FIELDS>>

\* lines 231-245: line 241 replaces the preserved_fields of the caller by
\* PRESERVED_SEARCH_FIELDS.
update_secondary_search_settings(saved, preserved_fields) ==
    LET secondary_settings == get_secondary_search_settings
    IN  /\ IF secondary_settings = NoRow
           THEN /\ Called("update_secondary_search_settings", NoRow, <<>>,
                          "none")
                /\ UNCHANGED tables
           ELSE /\ search_settings' =
                      [search_settings EXCEPT ![secondary_settings] =
                          update_search_settings(@, saved,
                                                 PRESERVED_SEARCH_FIELDS)]
                /\ Called("update_secondary_search_settings",
                          secondary_settings, <<>>, "none")
                /\ UNCHANGED <<index_attempts, next_settings_id,
                               next_attempt_id>>
        /\ UNCHANGED <<gvars, hvars, PRESERVED_SEARCH_FIELDS>>

\* -------------------------------------------------------- specifications
InitGate ==
    /\ active_question \in 0..MaxQpm
    /\ waiting_questions = <<>>
    /\ next_randid = 1
    /\ gpc = [c \in Callers |-> "idle"]
    /\ func_randid = [c \in Callers |-> 0]
    /\ position = [c \in Callers |-> 0]
    /\ notified = [c \in Callers |-> FALSE]
    /\ registered = <<>>
    /\ ahead = [c \in Callers |-> {}]
    /\ acquired = [c \in Callers |-> 0]

InitHandler(invocations) ==
    /\ \E i \in invocations : msg = i[1] /\ cfg = i[2]
    /\ hpc = "start"
    /\ attempts = 0
    /\ onyx_user = "unset"
    /\ answer = AnswerUnset
    /\ outcome = "none"
    /\ posts = <<>>
    /\ react = (msg.msg_to_respond # None)
    /\ followup = FALSE
    /\ response = [set |-> FALSE, offer_ephemeral_publication |-> FALSE,
                   skip_ai_feedback |-> FALSE]
    /\ built_blocks = <<>>
    /\ all_blocks = <<>>
    /\ ret = "none"
    /\ raised = "none"
    /\ post_failed = FALSE
    /\ caught = FALSE

\* The database before the first row is created.
InitSettings ==
    /\ search_settings = <<>>
    /\ index_attempts = {}
    /\ next_settings_id = 1
    /\ next_attempt_id = 1
    /\ db_call = [op |-> "none", arg |-> NoRow]
    /\ db_result = <<>>
    /\ db_raised = "none"

\* The value of the imported PRESERVED_SEARCH_FIELDS, which never changes.
InitPreserved(values) == PRESERVED_SEARCH_FIELDS \in values

Init ==
    InitGate /\ InitHandler(Invocations) /\ InitSettings /\ InitPreserved({{}})

\* One invocation of handle_regular_answer.
Next ==
    \/ HStart
    \/ HPrepare
    \/ HRetryNoTries
    \/ HRetryCall
    \/ GateStep(Handler)
    \/ HFetchFails
    \/ HFetchReturns
    \/ HExcept
    \/ HAssertFails
    \/ HMaintenance
    \/ HRemoveReaction
    \/ HInvalid
    \/ HNoRetrievalInfo
    \/ HMissingDocs
    \/ HDocsOnly
    \/ HCitationRequired
    \/ HValid
    \/ Refill

Spec == Init /\ [][Next]_vars

\* The invocations that compete for the limiter's slots.
NextGate ==
    \/ \E c \in Rivals : Arrive(c)
    \/ \E c \in Rivals : GateStep(c)
    \/ \E c \in Rivals : FuncReturn(c)
    \/ Refill

\* The handler under study has not been called.
NotCalled ==
    {i \in BaseMessages \X BaseConfigs : ~i[1].is_ephemeral /\ i[2].num_retries = 1}

InitIdle ==
    InitGate /\ InitHandler(NotCalled) /\ InitSettings /\ InitPreserved({{}})

SpecGate == InitIdle /\ [][NextGate]_vars

\* Every thread keeps running and the limiter keeps releasing slots.
SpecGateFair ==
    /\ SpecGate
    /\ \A c \in Rivals : WF_vars(GateStep(c) \/ FuncReturn(c))
    /\ WF_vars(Refill)

\* The calls of the functions of db/search_settings.py, in any order.
NextSettings ==
    \/ \E status \in IndexModelStatus :
          create_search_settings(DefaultSettings, status)
    \/ \E id \in 1..MaxSettings : CreateIndexAttempt(id)
    \/ \E id \in 1..MaxSettings : delete_search_settings(id)
    \/ \E id \in 1..MaxSettings, status \in IndexModelStatus :
          update_search_settings_status(id, status)
    \/ get_active_search_settings_list
    \/ call_get_current_search_settings
    \/ call_get_secondary_search_settings

SpecSettings == InitIdle /\ [][NextSettings]_vars

\* The rows are created, change status and are updated, under every value
\* PRESERVED_SEARCH_FIELDS can have.
InitUpdates ==
    /\ InitGate /\ InitHandler(NotCalled) /\ InitSettings
    /\ InitPreserved(SUBSET FieldNames)

NextUpdates ==
    \/ \E saved \in SavedSearchSettings, status \in IndexModelStatus :
          create_search_settings(saved, status)
    \/ \E id \in 1..MaxSettings, status \in IndexModelStatus :
          update_search_settings_status(id, status)
    \/ \E saved \in SavedSearchSettings, preserved_fields \in SUBSET FieldNames :
          update_current_search_settings(saved, preserved_fields)
    \/ \E saved \in SavedSearchSettings, preserved_fields \in SUBSET FieldNames :
          update_secondary_search_settings(saved, preserved_fields)

SpecUpdates == InitUpdates /\ [][NextUpdates]_vars

\* ---------------------------------------------------------------- claims
Done == hpc \in {"returned", "raised"}

\* C1: when the fetch fails on its first N-1 attempts and succeeds on
\* attempt N (1 <= N <= num_retries), the handler goes on with the answer
\* of attempt N, not into the failure branch, and exactly N slots have been
\* acquired, one per attempt.
C1_SlotPerAttempt ==
    answer.kind = "object" =>
        /\ 1 <= attempts /\ attempts <= cfg.num_retries
        /\ acquired[Handler] = attempts
        /\ hpc \notin {"start", "try", "fetch", "except"}
        /\ outcome # "ServiceFailure"

\* C1's case: the last permitted attempt succeeded after failures.
C1_Witness ==
    /\ answer.kind = "object"
    /\ attempts = MaxRetries /\ cfg.num_retries = MaxRetries
    /\ acquired[Handler] = MaxRetries
    /\ hpc = "returned" /\ outcome = "Valid"

\* C2: the fetch is attempted at most num_retries times and acquires at
\* most num_retries slots; when every attempt has failed the last error
\* leaves the retry wrapper (no further attempt is pending) and the
\* invocation ends in the ServiceFailure outcome.
C2_RetriesBounded ==
    /\ attempts <= cfg.num_retries
    /\ acquired[Handler] <= cfg.num_retries
    /\ (hpc = "except" /\ attempts >= 1) =>
          attempts = cfg.num_retries /\ answer.kind = "unset"
    /\ (hpc = "fetch" /\ gpc[Handler] = "idle" /\ cfg.num_retries >= 1) =>
          attempts < cfg.num_retries
    /\ (Done /\ attempts >= 1 /\ answer.kind = "unset") =>
          outcome = "ServiceFailure" /\ attempts = cfg.num_retries

\* C2's case: every one of the permitted attempts failed.
C2_Witness ==
    /\ hpc = "returned" /\ outcome = "ServiceFailure"
    /\ cfg.num_retries = MaxRetries
    /\ attempts = MaxRetries /\ acquired[Handler] = MaxRetries

\* The outcome the specification's ordered list gives (section 4.3).
SpecOutcome ==
    IF answer.kind = "unset" THEN "ServiceFailure"
    ELSE IF answer.kind = None THEN "EmptyAnswerUnderMaintenance"
    ELSE IF ~answer.answer_valid THEN "InvalidAnswer"
    ELSE IF cfg.expecting_search_result /\ answer.docs # "some"
    THEN "MissingExpectedDocuments"
    ELSE IF ~answer.answer /\ cfg.disable_docs_only_answer
    THEN "DocsOnlyAnswerSuppressed"
    ELSE IF /\ cfg.only_respond_if_citations /\ cfg.expecting_search_result
            /\ ~answer.citations /\ ~cfg.bypass_filters
    THEN "CitationRequired"
    ELSE "Valid"

\* The messages an outcome posts.
PostKinds(o) ==
    CASE o = "ServiceFailure" -> {"error"}
      [] o = "EmptyAnswerUnderMaintenance" -> {"maintenance", "forwarded"}
      [] o = "MissingExpectedDocuments" -> {"no_docs"}
      [] o = "CitationRequired" -> {"no_citations"}
      [] o = "Valid" -> {"answer", "team_member"}
      [] OTHER -> {}

\* C3 as stated: for every combination of answer contents and flags the
\* invocation takes exactly one outcome, the first of the list whose
\* condition holds (failures of posts and reaction updates aside).
C3_AlwaysAnOutcome ==
    (Done /\ answer.kind # "unset" /\ raised \notin {"PostError", "ReactError"})
        => outcome = SpecOutcome

\* C3 as amended: whenever an outcome is taken it is the first of the list
\* whose condition holds, only that outcome's messages are posted, and an
\* invocation that returns has taken one; no outcome is taken when the
\* code raises instead (no answer object while generation is enabled, or a
\* valid answer without retrieval info while a search was expected).
C3_FirstMatchWins ==
    /\ outcome # "none" =>
          /\ outcome = SpecOutcome
          /\ \A i \in DOMAIN posts : posts[i].kind \in PostKinds(outcome)
    /\ hpc = "returned" => outcome # "none"
    /\ (Done /\ outcome = "none" /\ answer.kind # "unset" /\ raised # "ReactError")
          => \/ raised = "AssertionError" /\ answer.kind = None
                  /\ ~cfg.DISABLE_GENERATIVE_AI
             \/ raised = "RuntimeError" /\ answer.kind = "object"
                  /\ answer.answer_valid /\ answer.docs = None
                  /\ cfg.expecting_search_result

\* C3's case: zero documents and missing citations at once.
C3_Witness ==
    /\ hpc = "returned"
    /\ outcome = "MissingExpectedDocuments"
    /\ answer.docs = "empty"
    /\ CitationsMissing
    /\ DocsOnlySuppressed
    /\ Len(posts) = 1

\* C4 as stated: no exception leaves handle_regular_answer; every
\* invocation that ends has returned a boolean.
C4_NoExceptionEscapes == Done => (hpc = "returned" /\ ret \in {"True", "False"})

\* C4 as amended: an invocation that ends has returned a boolean unless
\* one of these left it: the RuntimeError of a message without timestamp
\* that is no command, the AssertionError of a missing answer object while
\* generation is enabled, the RuntimeError of missing retrieval info, the
\* exception of a failed post of the error, no-documents or no-citations
\* notice, or the exception of a reaction update.  A failed post of the
\* maintenance notice, of the answer or of their follow-up message never
\* leaves it.
C4_EscapesEnumerated ==
    /\ hpc = "returned" => (ret \in {"True", "False"} /\ raised = "none")
    /\ hpc = "raised" =>
          \/ /\ raised = "RuntimeError" /\ answer.kind = "unset"
             /\ msg.msg_to_respond = None /\ ~msg.is_bot_msg
          \/ /\ raised = "AssertionError" /\ answer.kind = None
             /\ ~cfg.DISABLE_GENERATIVE_AI
          \/ /\ raised = "RuntimeError" /\ answer.kind = "object"
             /\ answer.docs = None /\ cfg.expecting_search_result
          \/ /\ raised = "PostError" /\ post_failed /\ ~caught
             /\ cfg.should_respond_with_error_msgs
             /\ outcome \in {"ServiceFailure", "MissingExpectedDocuments",
                              "CitationRequired"}
          \/ raised = "ReactError"
    /\ (post_failed /\ outcome \in {"EmptyAnswerUnderMaintenance", "Valid"})
          => (hpc = "returned" /\ caught)

\* C4's case: a collaborator failed and its exception left the function.
C4_Witness ==
    /\ hpc = "raised" /\ raised = "PostError"
    /\ outcome = "MissingExpectedDocuments"

\* C5: whenever a post fails, in whichever outcome, the invocation ends by
\* returning True and not by an exception.
C5_PostFailuresCaught ==
    (Done /\ post_failed) => (hpc = "returned" /\ ret = "True" /\ raised = "none")

\* C6: the processing reaction stays until the fetch has finished, and an
\* invocation that returns has removed it unless it caught a failed post.
C6_ReactionRemoved ==
    /\ (hpc \in {"start", "try", "fetch"} /\ msg.msg_to_respond # None) => react
    /\ (hpc = "returned" /\ react) => caught

\* C7: no slot is double-granted: under every interleaving of the callers'
\* wrapper steps the number of slots in use never exceeds the capacity of
\* the limiter, i.e. acquire_slot never runs when no slot is free.
C7_NoDoubleGrant == active_question <= MaxQpm

\* C8: a registered waiter proceeds past srl.waiter only while a slot is
\* free, and slots are acquired in the order of registration: whoever
\* executes acquire_slot has no waiter ahead of it, i.e. none that was
\* already registered when it reached the gate or registered itself.
C8_FifoAdmission ==
    [][\A c \in Callers :
         /\ (gpc[c] = "waiter" /\ gpc'[c] = "loop") => is_available
         /\ (gpc[c] = "acquire" /\ gpc'[c] = "func") => ahead[c] = {}]_vars

\* C9: under fair scheduling, with slots being released again and again,
\* every caller that enters the gate eventually acquires a slot and
\* invokes the fetch.
C9_NoStarvation ==
    \A c \in Rivals : (gpc[c] = "check") ~> (gpc[c] = "func")

\* C10: a message posted as ephemeral carries a thread timestamp only when
\* the triggering thread has at least 2 messages.
C10_EphemeralThreadTs ==
    \A i \in DOMAIN posts :
        posts[i].send_as_ephemeral =>
            (posts[i].thread_ts # None => msg.thread_messages >= 2)

\* C10's case: an ephemeral reply to a message with a timestamp in a
\* thread of one message was posted without thread timestamp.
C10_Witness ==
    /\ msg.msg_to_respond = "ts" /\ msg.thread_messages < 2
    /\ \E i \in DOMAIN posts :
          posts[i].send_as_ephemeral /\ posts[i].thread_ts = None

\* C11: in the Valid outcome offer_ephemeral_publication and
\* skip_ai_feedback are equal, and they are true exactly when the response
\* is ephemeral and the resolved receiver set (the sender for an ephemeral
\* response with a known sender, the receiver_ids argument otherwise) has
\* exactly one member.
C11_EphemeralFlags ==
    response.set =>
        LET ephemeral == msg.is_ephemeral /\ ~msg.is_bot_dm
            receivers == IF msg.sender_id # None /\ ephemeral
                         THEN ReceiverList(<<msg.sender_id>>)
                         ELSE msg.receiver_ids
            one == receivers.given /\ Len(receivers.ids) = 1
        IN  /\ outcome = "Valid"
            /\ response.offer_ephemeral_publication = response.skip_ai_feedback
            /\ response.offer_ephemeral_publication = (ephemeral /\ one)

\* C11's case: an ephemeral answer to one receiver, both flags true.
C11_Witness ==
    /\ outcome = "Valid" /\ response.set /\ send_as_ephemeral
    /\ Len(target_receiver_ids.ids) = 1
    /\ response.offer_ephemeral_publication /\ response.skip_ai_feedback

\* C12: the block list posted for a valid answer has at most 50 entries
\* and is the prefix of the formatter's list in original order: a list of
\* at most 50 blocks is posted unchanged, a longer one yields exactly its
\* first 50 blocks, and the truncation raises nothing.
C12_BlockCap ==
    outcome = "Valid" =>
        /\ Len(all_blocks) <= 50
        /\ Len(all_blocks) <= Len(built_blocks)
        /\ \A i \in 1..Len(all_blocks) : all_blocks[i] = built_blocks[i]
        /\ Len(built_blocks) <= 50 => all_blocks = built_blocks
        /\ Len(built_blocks) > 50 => Len(all_blocks) = 50
        /\ hpc = "returned"

\* C12's case: the formatter produced 60 blocks and the answer was posted
\* with the first 50 of them.
C12_Witness ==
    /\ outcome = "Valid" /\ ret = "False"
    /\ \E i \in DOMAIN posts : posts[i].kind = "answer"
    /\ Len(built_blocks) = 60
    /\ all_blocks = [i \in 1..50 |-> i]

\* The fetch succeeded with a valid answer, a search was expected, and the
\* invocation ended without a failure of a post or of a reaction update.
SearchedValidAnswer ==
    /\ Done /\ answer.kind = "object" /\ answer.answer_valid
    /\ cfg.expecting_search_result
    /\ ~post_failed /\ raised # "ReactError"

\* Exactly the messages of the given kinds were posted, in this order.
Posted(kinds) ==
    /\ Len(posts) = Len(kinds)
    /\ \A i \in DOMAIN posts : posts[i].kind = kinds[i]

MaintenancePosts ==
    IF Truthy(target_receiver_ids) /\ ~(msg.is_ephemeral /\ ~msg.is_bot_dm)
    THEN <<"maintenance", "forwarded">>
    ELSE <<"maintenance">>

\* C15 as stated: in the EmptyAnswerUnderMaintenance outcome the
\* maintenance notice is posted, the "forwarded" message exactly when the
\* receiver set is non-empty and the response is not ephemeral, and the
\* value returned is True, as in the other outcomes that are not Valid.
C15_MaintenanceReturnsTrue ==
    (outcome = "EmptyAnswerUnderMaintenance" /\ ~post_failed) =>
        /\ Posted(MaintenancePosts)
        /\ hpc = "returned" /\ ret = "True"

\* C15 as amended: the posts are as stated, but the value returned is
\* False, the value of the Valid outcome, when the posts succeed; True is
\* returned only when one of the posts failed and was caught.
C15_MaintenanceReturnsFalse ==
    outcome = "EmptyAnswerUnderMaintenance" =>
        /\ answer.kind = None /\ cfg.DISABLE_GENERATIVE_AI
        /\ hpc = "returned"
        /\ ~post_failed => (Posted(MaintenancePosts) /\ ret = "False")
        /\ post_failed => (ret = "True" /\ caught /\ Len(posts) <= 1)

\* C15's case: the notice and the "forwarded" message were posted.
C15_Witness ==
    /\ outcome = "EmptyAnswerUnderMaintenance"
    /\ Posted(<<"maintenance", "forwarded">>)
    /\ hpc = "returned" /\ ret = "False"

\* C16: when the fetched answer has answer_valid = False, whatever its
\* documents and citations and whatever the flags, the invocation posts no
\* message, removes the processing reaction, adds the follow-up reaction
\* and returns True (unless a reaction update raises); the follow-up
\* reaction is added in no other case.
C16_InvalidAnswer ==
    /\ (Done /\ answer.kind = "object" /\ ~answer.answer_valid
          /\ raised # "ReactError") =>
          /\ outcome = "InvalidAnswer"
          /\ hpc = "returned" /\ ret = "True"
          /\ Posted(<<>>)
          /\ ~react /\ followup
    /\ followup => (outcome = "InvalidAnswer" /\ ~answer.answer_valid)

\* C16's case: an invalid answer that also has no documents, no text and
\* no citations, with error display enabled.
C16_Witness ==
    /\ hpc = "returned" /\ ret = "True" /\ followup /\ ~react
    /\ msg.msg_to_respond # None
    /\ ~answer.answer_valid /\ answer.docs = None /\ ~answer.answer
    /\ ~answer.citations
    /\ cfg.expecting_search_result /\ cfg.should_respond_with_error_msgs
    /\ Posted(<<>>)

\* C17: in the Valid outcome the team-member notification is sent only
\* after the answer was posted, only for a reply that is not ephemeral, to
\* a message with a timestamp and with a non-empty receiver set; under
\* these conditions it is sent whenever no post failed.  It is never sent
\* for an ephemeral reply, for a command without message timestamp, or
\* when the post of the answer failed.
C17_TeamNotification ==
    LET sent(kind) == \E i \in DOMAIN posts : posts[i].kind = kind
        wanted == /\ ~(msg.is_ephemeral /\ ~msg.is_bot_dm)
                  /\ msg.msg_to_respond # None
                  /\ Truthy(msg.receiver_ids)
    IN  /\ sent("team_member") =>
              /\ outcome = "Valid" /\ wanted
              /\ Posted(<<"answer", "team_member">>)
              /\ posts[2].thread_ts = msg.msg_to_respond
              /\ posts[2].receiver_ids = msg.receiver_ids
        /\ (outcome = "Valid" /\ wanted /\ ~post_failed) => sent("team_member")
        /\ (outcome = "Valid" /\ ~sent("answer")) => ~sent("team_member")

\* C17's case: the answer and then the notification were posted.
C17_Witness ==
    /\ outcome = "Valid" /\ hpc = "returned" /\ ret = "False"
    /\ Posted(<<"answer", "team_member">>)
    /\ ~send_as_ephemeral /\ target_thread_ts # None

\* C18: a message without timestamp that is no command makes
\* handle_regular_answer raise at once: the invocation never gets past its
\* start, makes no fetch attempt (so nothing is retried), acquires no slot,
\* posts nothing and changes no reaction.
C18_RaisesImmediately ==
    (msg.msg_to_respond = None /\ ~msg.is_bot_msg) =>
        /\ hpc \in {"start", "raised"}
        /\ hpc = "raised" => raised = "RuntimeError"
        /\ attempts = 0 /\ acquired[Handler] = 0 /\ gpc[Handler] = "idle"
        /\ onyx_user = "unset" /\ answer = AnswerUnset /\ outcome = "none"
        /\ Posted(<<>>) /\ ~post_failed
        /\ react = (msg.msg_to_respond # None) /\ ~followup

\* C18's case: the invocation has raised.
C18_Witness ==
    /\ msg.msg_to_respond = None /\ ~msg.is_bot_msg
    /\ hpc = "raised" /\ raised = "RuntimeError"
    /\ attempts = 0 /\ Posted(<<>>)

\* C20: the user handed to the fetch is the one resolved from the sender's
\* email when the message is a DM to the bot or the response is ephemeral,
\* and no user in every other case: for a message that is neither, the
\* acting user is the same whoever sent it.
C20_ActingUser ==
    onyx_user # "unset" =>
        IF msg.is_bot_dm \/ msg.is_ephemeral
        THEN onyx_user = (IF msg.email # None THEN "user" ELSE None)
        ELSE onyx_user = None

\* C20's case: a message in a channel, answered in public, from a sender
\* with a known email, is fetched with no user.
C20_Witness ==
    /\ attempts >= 1 /\ answer.kind = "object"
    /\ ~msg.is_bot_dm /\ ~msg.is_ephemeral /\ msg.email # None
    /\ onyx_user = None

\* The ids of the rows of a status.
RowsWithStatus(status) == {i \in Ids : search_settings[i].status = status}

\* C19: get_active_search_settings_list returns a list of one or two rows:
\* first the primary settings, the PRESENT row with the highest id, then,
\* exactly when there is a FUTURE row, the secondary settings, the FUTURE
\* row with the highest id; without PRESENT row it raises and returns no
\* list.
C19_ActiveSettingsList ==
    db_call.op = "get_active_search_settings_list" =>
        IF RowsWithStatus("PRESENT") = {}
        THEN db_raised = "RuntimeError" /\ db_result = <<>>
        ELSE /\ db_raised = "none"
             /\ Len(db_result) \in {1, 2}
             /\ db_result[1] \in RowsWithStatus("PRESENT")
             /\ \A i \in RowsWithStatus("PRESENT") : i <= db_result[1]
             /\ Len(db_result) = 2 <=> RowsWithStatus("FUTURE") # {}
             /\ Len(db_result) = 2 =>
                   /\ db_result[2] \in RowsWithStatus("FUTURE")
                   /\ \A i \in RowsWithStatus("FUTURE") : i <= db_result[2]

\* C19's case: two PRESENT rows and a FUTURE row, a list of two returned.
C19_Witness ==
    /\ db_call.op = "get_active_search_settings_list"
    /\ Cardinality(RowsWithStatus("PRESENT")) = 2
    /\ Cardinality(RowsWithStatus("FUTURE")) = 1
    /\ Len(db_result) = 2 /\ db_raised = "none"

\* The PRESENT row with the highest id is the row of this id.
IsCurrent(id) ==
    /\ id \in RowsWithStatus("PRESENT")
    /\ \A i \in RowsWithStatus("PRESENT") : i <= id

\* C21: delete_search_settings called with the id of the current settings
\* raises ValueError and leaves the stored state as it was: no
\* SearchSettings row and no IndexAttempt row is deleted.
C21_DeleteCurrentRefused ==
    [][\A id \in 1..MaxSettings :
          (IsCurrent(id) /\ delete_search_settings(id)) =>
              /\ db_raised' = "ValueError"
              /\ search_settings' = search_settings
              /\ index_attempts' = index_attempts]_vars

\* C21's case: the deletion of the current settings, which have an index
\* attempt, was refused.
C21_Witness ==
    /\ db_call.op = "delete_search_settings" /\ db_raised = "ValueError"
    /\ IsCurrent(db_call.arg)
    /\ \E a \in index_attempts : a.search_settings_id = db_call.arg

\* C22: a delete_search_settings step removes no PRESENT row, and removes
\* index attempts of a row only together with the row: a call that targets
\* a PRESENT row leaves the row and its index attempts as they were.
C22_PresentRowsKept ==
    [][\A id \in 1..MaxSettings :
          delete_search_settings(id) =>
              /\ \A i \in RowsWithStatus("PRESENT") :
                    i \in DOMAIN search_settings'
                       /\ search_settings'[i] = search_settings[i]
              /\ \A a \in index_attempts \ index_attempts' :
                    /\ a.search_settings_id \in Ids
                    /\ a.search_settings_id \notin DOMAIN search_settings']_vars

\* The row with the highest id among those of a status, as a list: empty
\* when there is none.
HighestWithStatus(status) ==
    IF RowsWithStatus(status) = {} THEN <<>>
    ELSE <<CHOOSE i \in RowsWithStatus(status) :
              \A j \in RowsWithStatus(status) : j <= i>>

\* C23: whatever creations, deletions and status updates came before,
\* get_current_search_settings returns the PRESENT row with the highest id
\* and raises RuntimeError when there is none, get_secondary_search_settings
\* returns the FUTURE row with the highest id and None when there is none,
\* and create_search_settings with the default status FUTURE does not
\* change the row get_current_search_settings returns.
C23_CurrentAndSecondary ==
    /\ [](/\ db_call.op = "get_current_search_settings" =>
                /\ db_result = HighestWithStatus("PRESENT")
                /\ db_raised =
                      IF db_result = <<>> THEN "RuntimeError" ELSE "none"
          /\ db_call.op = "get_secondary_search_settings" =>
                /\ db_result = HighestWithStatus("FUTURE")
                /\ db_raised = "none")
    /\ [][(\E saved \in SavedSearchSettings :
             create_search_settings(saved, "FUTURE")) =>
             /\ HighestWithStatus("PRESENT")' = HighestWithStatus("PRESENT")
             /\ get_current_search_settings' = get_current_search_settings]_vars

\* C23's case: after a deletion left a gap, the current settings are asked
\* for while two rows are PRESENT.
C23_Witness ==
    /\ db_call.op = "get_current_search_settings" /\ db_raised = "none"
    /\ RowsWithStatus("PRESENT") = {1, 3} /\ 2 \notin Ids
    /\ db_result = <<3>>

\* The row of this id is updated as the caller asked: the fields named in
\* preserved_fields are kept, every other field takes the value of the
\* supplied settings; nothing else in the tables changes.
UpdatedAsAsked(id, saved, preserved_fields) ==
    /\ DOMAIN search_settings' = Ids
    /\ \A i \in Ids \ {id} : search_settings'[i] = search_settings[i]
    /\ search_settings'[id].status = search_settings[id].status
    /\ \A f \in FieldNames :
          search_settings'[id][f] =
             IF f \in preserved_fields THEN search_settings[id][f]
             ELSE saved[f]
    /\ index_attempts' = index_attempts

\* C24: update_current_search_settings and update_secondary_search_settings
\* keep every field named in the preserved_fields of the caller on the
\* target row and overwrite every other field with the value supplied;
\* without a target row nothing is changed.
C24_PreservedFieldsKept ==
    [][\A saved \in SavedSearchSettings, preserved_fields \in SUBSET FieldNames :
          /\ update_current_search_settings(saved, preserved_fields) =>
                IF RowsWithStatus("PRESENT") = {}
                THEN UNCHANGED tables
                ELSE UpdatedAsAsked(HighestWithStatus("PRESENT")[1], saved,
                                    preserved_fields)
          /\ update_secondary_search_settings(saved, preserved_fields) =>
                IF RowsWithStatus("FUTURE") = {}
                THEN UNCHANGED tables
                ELSE UpdatedAsAsked(HighestWithStatus("FUTURE")[1], saved,
                                    preserved_fields)]_vars

\* C25: when the response is ephemeral and the sender id is known, every
\* message posted is addressed to the sender alone, whatever receiver_ids
\* the caller supplied; in every other case a message posted to receivers
\* is addressed to the receiver_ids of the caller.
C25_EphemeralReceivers ==
    \A i \in DOMAIN posts :
        IF msg.is_ephemeral /\ ~msg.is_bot_dm /\ msg.sender_id # None
        THEN posts[i].receiver_ids = ReceiverList(<<msg.sender_id>>)
        ELSE posts[i].receiver_ids \in {msg.receiver_ids, NoReceivers}
                /\ (posts[i].kind # "forwarded" =>
                       posts[i].receiver_ids = msg.receiver_ids)

\* C25's case: the caller supplied two receivers, the response is
\* ephemeral and the answer went to the sender alone.
C25_Witness ==
    /\ msg.is_ephemeral /\ ~msg.is_bot_dm /\ msg.sender_id # None
    /\ Len(msg.receiver_ids.ids) = 2
    /\ \E i \in DOMAIN posts :
          /\ posts[i].kind = "answer"
          /\ posts[i].receiver_ids = ReceiverList(<<msg.sender_id>>)
====
